---- MODULE Spec2Model ----
(***************************************************************************)
(* A model of the student record management system of src/srms.c:          *)
(* the record codec, the derived-field calculator, the student and         *)
(* credential flat files, the login flow and the role menus.               *)
(*                                                                         *)
(* Text is a sequence of byte codes (a C string without its terminating    *)
(* NUL); a file is a sequence of bytes, line feeds included.  Marks,       *)
(* totals and bounds of percentage searches are exact decimals counted in  *)
(* thousandths of a mark (MarkScale); a percentage is counted in units of  *)
(* 1/PctScale of a percentage point, so that total / 300 * 100 is exact.   *)
(* The rounding error of binary floating point is not modelled.            *)
(***************************************************************************)
EXTENDS Integers, Sequences, FiniteSets, TLC

(* ---------------------------------------------------------------- bytes *)
NUL == 0
LF == 10
SPACE == 32
MINUS == 45
DOT == 46
ZERO == 48
PIPE == 124

Min(a, b) == IF a < b THEN a ELSE b

isdigit(c) == c \in 48..57
tolower(c) == IF c \in 65..90 THEN c + 32 ELSE c
toupper(c) == IF c \in 97..122 THEN c - 32 ELSE c
isspace(c) == c \in {9, 10, 11, 12, 13, 32}

Lower(s) == [i \in 1..Len(s) |-> tolower(s[i])]
Upper(s) == [i \in 1..Len(s) |-> toupper(s[i])]

\* The first index from i on at which s holds byte c, or Len(s) + 1.
RECURSIVE IndexOf(_, _, _)
IndexOf(s, c, i) == IF i > Len(s) \/ s[i] = c THEN i ELSE IndexOf(s, c, i + 1)

\* The C string held by a buffer: the bytes before the first NUL.
CStr(s) == SubSeq(s, 1, IndexOf(s, NUL, 1) - 1)

\* strncpy(dst, src, n) into a zeroed or then-terminated buffer: at most n bytes.
Truncate(s, n) == SubSeq(s, 1, Min(Len(s), n))

\* "%d" of a non-negative integer.
RECURSIVE NatToText(_)
NatToText(n) == IF n < 10 THEN <<ZERO + n>>
                ELSE NatToText(n \div 10) \o <<ZERO + (n % 10)>>

INT_MAX == 2147483647
INT_MIN == -2147483647 - 1

\* "%d": the decimal text of a machine integer.
IntToText(n) ==
    IF n = INT_MIN THEN <<MINUS>> \o NatToText(214748364) \o <<ZERO + 8>>
    ELSE IF n < 0 THEN <<MINUS>> \o NatToText(-n)
    ELSE NatToText(n)

\* The first index from i on at which s holds no digit, or Len(s) + 1.
RECURSIVE DigitsEnd(_, _)
DigitsEnd(s, i) == IF i > Len(s) \/ ~isdigit(s[i]) THEN i ELSE DigitsEnd(s, i + 1)

\* The leading run of digits of s.
DigitRun(s) == SubSeq(s, 1, DigitsEnd(s, 1) - 1)

\* The first index from i on at which s holds no white space, or Len(s) + 1.
RECURSIVE SpaceEnd(_, _)
SpaceEnd(s, i) == IF i > Len(s) \/ ~isspace(s[i]) THEN i ELSE SpaceEnd(s, i + 1)

SkipSpace(s) == SubSeq(s, SpaceEnd(s, 1), Len(s))

RECURSIVE ZerosEnd(_, _)
ZerosEnd(d, i) == IF i >= Len(d) \/ d[i] # ZERO THEN i ELSE ZerosEnd(d, i + 1)

\* A digit run without its leading zeros (one digit is always left).
StripZeros(d) == SubSeq(d, ZerosEnd(d, 1), Len(d))

\* The number the first n digits of d write.
RECURSIVE DigitsUpTo(_, _)
DigitsUpTo(d, n) == IF n = 0 THEN 0 ELSE DigitsUpTo(d, n - 1) * 10 + (d[n] - ZERO)

DigitsValue(d) == DigitsUpTo(d, Len(d))

\* d1 <= d2 for digit strings of equal length: at the first difference, if
\* there is one, d1 has the smaller digit.
DigitsLeq(d1, d2) ==
    \A i \in 1..Len(d1) :
       (\A j \in 1..(i - 1) : d1[j] = d2[j]) => d1[i] <= d2[i]

\* The sign, and the digits after it, that atoi and atof read.
NumSign(s) == LET t == SkipSpace(s) IN IF t # <<>> /\ Head(t) = MINUS THEN -1 ELSE 1
NumBody(s) == LET t == SkipSpace(s)
              IN IF t # <<>> /\ Head(t) \in {MINUS, 43} THEN Tail(t) ELSE t

\* atoi's digits do not fit an int: the conversion is undefined (the C library
\* gives no error), and the caller gets some integer.
atoi_overflows(s) ==
    LET d == StripZeros(DigitRun(NumBody(s)))
        lim == IF NumSign(s) = 1 THEN NatToText(INT_MAX)
               ELSE NatToText(214748364) \o <<ZERO + 8>>
    IN Len(d) > 10 \/ (Len(d) = 10 /\ ~DigitsLeq(d, lim))

\* atoi of a text whose digits fit an int.
atoi(s) ==
    LET d == StripZeros(DigitRun(NumBody(s)))
    IN IF d = <<>> THEN 0
       ELSE IF NumSign(s) = -1 /\ d = NatToText(214748364) \o <<ZERO + 8>> THEN INT_MIN
       ELSE NumSign(s) * DigitsValue(d)

(* ---------------------------------------------------------------- marks *)
SUBJECTS == 3
MarkScale == 1000
PctScale == 3000

\* The first three fraction digits of a digit run, as thousandths.
FracMilli(f) ==
    LET g == SubSeq(f \o <<ZERO, ZERO, ZERO>>, 1, 3) IN DigitsValue(g)

\* (float)atof(tok): sign, digits, an optional point and fraction digits; what
\* follows is ignored, and a text with no number is 0.  Exponents are not read.
atof(s) ==
    LET b == NumBody(s)
        ip == DigitRun(b)
        rest == SubSeq(b, Len(ip) + 1, Len(b))
        fp == IF rest # <<>> /\ Head(rest) = DOT THEN DigitRun(Tail(rest)) ELSE <<>>
    IN NumSign(s) * (DigitsValue(ip) * MarkScale + FracMilli(fp))

\* "%.2f": two fraction digits, rounded to the nearest hundredth.
FormatMark(m) ==
    LET a == IF m < 0 THEN -m ELSE m
        h == (a + 5) \div 10
        sign == IF m < 0 /\ h > 0 THEN <<MINUS>> ELSE <<>>
    IN sign \o NatToText(h \div 100) \o <<DOT, ZERO + ((h \div 10) % 10), ZERO + (h % 10)>>

valid_marks(mark) == mark >= 0 /\ mark <= 100 * MarkScale

valid_name(name) == name # <<>>

GradeAplus == <<65, 43>>
GradeA == <<65>>
GradeB == <<66>>
GradeC == <<67>>
GradeD == <<68>>
GradeF == <<70>>

\* A ladder whose comparisons are strict: a percentage on a threshold falls to
\* the grade below.
GradeLadderStrict(percentage) ==
    IF percentage > 90 * PctScale THEN GradeAplus
    ELSE IF percentage > 80 * PctScale THEN GradeA
    ELSE IF percentage > 70 * PctScale THEN GradeB
    ELSE IF percentage > 60 * PctScale THEN GradeC
    ELSE IF percentage > 50 * PctScale THEN GradeD
    ELSE GradeF

\* calculate_student's grade ladder.
GradeLadder(percentage) ==
    IF percentage >= 90 * PctScale THEN GradeAplus
    ELSE IF percentage >= 80 * PctScale THEN GradeA
    ELSE IF percentage >= 70 * PctScale THEN GradeB
    ELSE IF percentage >= 60 * PctScale THEN GradeC
    ELSE IF percentage >= 50 * PctScale THEN GradeD
    ELSE GradeF

RECURSIVE SumMarks(_)
SumMarks(marks) == IF marks = <<>> THEN 0 ELSE Head(marks) + SumMarks(Tail(marks))

\* calculate_student: total, percentage and grade from the marks.
calculate_student(s) ==
    LET total == SumMarks(s.marks)
        percentage == (((total * PctScale) \div (100 * SUBJECTS)) * 100) \div MarkScale
    IN [s EXCEPT !.total = total, !.percentage = percentage,
                 !.grade = GradeLadder(percentage)]

\* A Student whose derived fields are not yet computed.
RawStudent(roll, name, marks) ==
    [roll |-> roll, name |-> name, marks |-> marks,
     total |-> 0, percentage |-> 0, grade |-> <<>>]

(* ---------------------------------------------------------- record codec *)
MAX_NAME == 100
MAX_USER == 50
MAX_ROLE == 16
LINE_BUF == 512

\* write_student_to_file: roll|name|m1|m2|m3 and a line feed.
RECURSIVE MarkFields(_)
MarkFields(marks) ==
    IF marks = <<>> THEN <<>>
    ELSE <<PIPE>> \o FormatMark(Head(marks)) \o MarkFields(Tail(marks))

write_student_to_file(s) ==
    IntToText(s.roll) \o <<PIPE>> \o s.name \o MarkFields(s.marks) \o <<LF>>

\* The tokens successive strtok calls yield from index i of s on, for one
\* delimiter d: the maximal runs of bytes other than d.
RECURSIVE strtok(_, _, _)
strtok(s, d, i) ==
    IF i > Len(s) THEN <<>>
    ELSE IF s[i] = d THEN strtok(s, d, i + 1)
    ELSE LET e == IndexOf(s, d, i)
         IN <<SubSeq(s, i, e - 1)>> \o strtok(s, d, e + 1)

\* The line as parse_line_to_student splits it: its C string without one
\* trailing line feed, cut at every '|'.
LineTokens(line) ==
    LET c == CStr(line)
        copy == IF c # <<>> /\ c[Len(c)] = LF THEN SubSeq(c, 1, Len(c) - 1) ELSE c
    IN strtok(copy, PIPE, 1)

\* parse_line_to_student returns 1: there are a roll and a name token.
parse_ok(line) == Len(LineTokens(line)) >= 2

\* The Student parse_line_to_student fills in (when parse_ok): a missing mark
\* token is 0.0, and the derived fields are recomputed.
parse_line_to_student(line) ==
    LET tok == LineTokens(line)
        marks == [i \in 1..SUBJECTS |->
                    IF Len(tok) >= i + 2 THEN atof(tok[i + 2]) ELSE 0]
    IN calculate_student(
         RawStudent(atoi(tok[1]), Truncate(tok[2], MAX_NAME - 1), marks))

(* ---------------------------------------------------------------- files *)
\* A file: absent, or its bytes.
NoFile == [exists |-> FALSE, bytes |-> <<>>]
FileOf(bytes) == [exists |-> TRUE, bytes |-> bytes]

\* The index of the last byte one fgets(buf, n, fp) reads when the next unread
\* byte is at index i: it reads through the first line feed, and at most
\* n - 1 bytes.
FgetsEnd(bytes, i, n) == Min(Min(IndexOf(bytes, LF, i), Len(bytes)), i + n - 2)

\* The chunks successive fgets(buf, n, fp) calls read from index i on.
RECURSIVE FgetsFrom(_, _, _)
FgetsFrom(bytes, i, n) ==
    IF i > Len(bytes) THEN <<>>
    ELSE LET e == FgetsEnd(bytes, i, n)
         IN <<SubSeq(bytes, i, e)>> \o FgetsFrom(bytes, e + 1, n)

FgetsAll(bytes, n) == FgetsFrom(bytes, 1, n)

RECURSIVE ParseAll(_)
ParseAll(lines) ==
    IF lines = <<>> THEN <<>>
    ELSE (IF parse_ok(Head(lines)) THEN <<parse_line_to_student(Head(lines))>> ELSE <<>>)
         \o ParseAll(Tail(lines))

\* read_all_students: every line that parses, in file order; none (NULL, count
\* 0) when the file is absent or holds no record.
read_all_students(f) ==
    IF f.exists THEN ParseAll(FgetsAll(f.bytes, LINE_BUF)) ELSE <<>>

\* A lookup that never finds the roll.
roll_exists_never(f, roll) == FALSE

\* roll_exists: a record of the file has this roll.
roll_exists(f, roll) ==
    LET a == read_all_students(f) IN \E i \in 1..Len(a) : a[i].roll = roll

RECURSIVE EncodeAll(_)
EncodeAll(arr) ==
    IF arr = <<>> THEN <<>> ELSE write_student_to_file(Head(arr)) \o EncodeAll(Tail(arr))

\* append_student: the file after fopen(STUDENT_FILE, "a") and one line.
append_student(f, s) == FileOf(f.bytes \o write_student_to_file(s))

\* overwrite_students: the file after fopen(STUDENT_FILE, "w") and every line.
overwrite_students(arr) == FileOf(EncodeAll(arr))

(* ----------------------------------------------------------- credentials *)
ADMIN == <<65, 68, 77, 73, 78>>
STAFF == <<83, 84, 65, 70, 70>>
PRINCIPAL == <<80, 82, 73, 78, 67, 73, 80, 65, 76>>
STUDENT == <<83, 84, 85, 68, 69, 78, 84>>
GUEST == <<71, 85, 69, 83, 84>>

USER_WIDTH == 127
ROLE_WIDTH == 63
CRED_LINE == 256

\* One "%<w>s" conversion: white space is skipped, then up to w bytes that are
\* not white space are read.
\* The first index from i on at which s holds white space, or Len(s) + 1.
RECURSIVE WordEnd(_, _)
WordEnd(s, i) == IF i > Len(s) \/ isspace(s[i]) THEN i ELSE WordEnd(s, i + 1)

\* The word read from index i of s on, and the index after it.
ScanWord(s, i, w) ==
    LET b == SpaceEnd(s, i)
        e == Min(WordEnd(s, b), b + w)
    IN [tok |-> SubSeq(s, b, e - 1), next |-> e]

\* The rows fscanf(fp, "%127s %127s %63s", ...) == 3 yields from index i on,
\* until it fails.
RECURSIVE ScanFrom(_, _)
ScanFrom(bytes, i) ==
    LET u == ScanWord(bytes, i, USER_WIDTH)
        p == ScanWord(bytes, u.next, USER_WIDTH)
        r == ScanWord(bytes, p.next, ROLE_WIDTH)
    IN IF u.tok = <<>> \/ p.tok = <<>> \/ r.tok = <<>> THEN <<>>
       ELSE <<[user |-> u.tok, pass |-> p.tok, role |-> r.tok]>> \o ScanFrom(bytes, r.next)

ScanRows(bytes) == ScanFrom(bytes, 1)

\* "%s %s %s\n"
CredLine(user, pass, role) == user \o <<SPACE>> \o pass \o <<SPACE>> \o role \o <<LF>>

\* check_credentials returns 1: some row matches on user name and password.
check_credentials(f, username, password) ==
    /\ f.exists
    /\ LET rows == ScanRows(f.bytes)
       IN \E i \in 1..Len(rows) : rows[i].user = username /\ rows[i].pass = password

\* The role check_credentials copies out: that of the first matching row, cut
\* to MAX_ROLE - 1 bytes.
matched_role(f, username, password) ==
    LET rows == ScanRows(f.bytes)
        hit == {i \in 1..Len(rows) : rows[i].user = username /\ rows[i].pass = password}
        first == CHOOSE i \in hit : \A j \in hit : i <= j
    IN Truncate(rows[first].role, MAX_ROLE - 1)

\* add_credential: one line appended, whoever is already in the file.
add_credential(f, user, pass, role) == FileOf(f.bytes \o CredLine(user, pass, role))

\* The lines reset_password keeps, each cut by snprintf to its buffer.
RECURSIVE ResetLines(_, _, _)
ResetLines(rows, user, newpass) ==
    IF rows = <<>> THEN <<>>
    ELSE LET r == Head(rows)
             line == IF r.user = user THEN CredLine(r.user, newpass, r.role)
                     ELSE CredLine(r.user, r.pass, r.role)
         IN Truncate(line, CRED_LINE - 1) \o ResetLines(Tail(rows), user, newpass)

cred_found(f, user) ==
    /\ f.exists
    /\ LET rows == ScanRows(f.bytes) IN \E i \in 1..Len(rows) : rows[i].user = user

\* reset_password, when the user is found: every row rewritten.
reset_password(f, user, newpass) == FileOf(ResetLines(ScanRows(f.bytes), user, newpass))

RECURSIVE RemoveLines(_, _)
RemoveLines(rows, user) ==
    IF rows = <<>> THEN <<>>
    ELSE LET r == Head(rows)
         IN (IF r.user = user THEN <<>>
             ELSE Truncate(CredLine(r.user, r.pass, r.role), CRED_LINE - 1))
            \o RemoveLines(Tail(rows), user)

\* remove_credential, when the user is found: every row of that user dropped.
remove_credential(f, user) == FileOf(RemoveLines(ScanRows(f.bytes), user))

DefaultCredentials ==
    CredLine(Lower(ADMIN), Lower(ADMIN), ADMIN)
    \o CredLine(Lower(STAFF), Lower(STAFF), STAFF)
    \o CredLine(Lower(GUEST), Lower(GUEST), GUEST)
    \o CredLine(Lower(PRINCIPAL), Lower(PRINCIPAL), PRINCIPAL)
    \o CredLine(Lower(STUDENT), Lower(STUDENT), STUDENT)

\* ensure_default_credentials: the five default rows, if there is no file.
ensure_default_credentials(f) == IF f.exists THEN f ELSE FileOf(DefaultCredentials)

(* ----------------------------------------------------------------- state *)
VARIABLES
    studentFile,   \* STUDENT_FILE
    backupFile,    \* BACKUP_FILE
    credFile,      \* CREDENTIAL_FILE
    csvFile,       \* CSV_FILE
    reportFile,    \* REPORT_FILE
    currentUser,   \* the global currentUser
    currentRole,   \* the global currentRole
    pc,            \* where the process is: "boot", "login", a role menu, "exited"
    attempts,      \* login_system's counter
    passes,        \* passes of login_system's loop that did not log in
    msg,           \* the last outcome the handler printed
    arr,           \* the Student records the last handler held in memory
    shown,         \* the Student records the last handler displayed
    waiting        \* a menu handler has returned and pause_and_wait is reading

vars == <<studentFile, backupFile, credFile, csvFile, reportFile,
          currentUser, currentRole, pc, attempts, passes, msg, arr, shown,
          waiting>>

exports == <<csvFile, reportFile>>

session == <<currentUser, currentRole, pc, attempts, passes>>

\* What a menu handler printed, held and displayed; the menu then waits in
\* pause_and_wait.
Out(m, a, d) == msg' = m /\ arr' = a /\ shown' = d /\ waiting' = TRUE

\* What is on the screen and in memory at a prompt that follows no handler.
Prompt(m) == msg' = m /\ arr' = <<>> /\ shown' = <<>> /\ waiting' = FALSE

\* A handler that ends with message m and touches no file.
Refuse(m) ==
    /\ Out(m, <<>>, <<>>)
    /\ UNCHANGED <<session, studentFile, backupFile, exports, credFile>>

\* One scanf("%d") or scanf("%f"): the conversion fails, or yields a value.
NoScan == [ok |-> FALSE, v |-> 0]
Scan(v) == [ok |-> TRUE, v |-> v]

\* A role check that lets every role through.
MayEditAnyRole == TRUE

\* The role check of the add, update and delete handlers.
MayEdit == currentRole = ADMIN \/ currentRole = STAFF

(* ------------------------------------------------------ student features *)
\* The first index of arr whose roll is roll, or 0.
FindRoll(a, roll) ==
    LET hit == {i \in 1..Len(a) : a[i].roll = roll}
    IN IF hit = {} THEN 0 ELSE CHOOSE i \in hit : \A j \in hit : i <= j

\* The first index at which an entered mark stops feature_add_student, or 0.
FirstBadMark(marksIn) ==
    LET bad == {i \in 1..SUBJECTS : ~marksIn[i].ok \/ ~valid_marks(marksIn[i].v)}
    IN IF bad = {} THEN 0 ELSE CHOOSE i \in bad : \A j \in bad : i <= j

\* feature_add_student: rollIn and marksIn are what scanf read, nameIn the line
\* typed for the name, canWrite whether the file opens for appending.
feature_add_student(rollIn, nameIn, marksIn, canWrite) ==
    /\ UNCHANGED <<session, backupFile, exports, credFile>>
    /\ IF ~MayEdit
       THEN Out("Permission denied: Only ADMIN/STAFF can add students.", <<>>, <<>>)
            /\ UNCHANGED studentFile
       ELSE IF ~rollIn.ok
       THEN Out("Invalid roll.", <<>>, <<>>) /\ UNCHANGED studentFile
       ELSE IF roll_exists(studentFile, rollIn.v)
       THEN Out("Roll number already exists!", <<>>, <<>>) /\ UNCHANGED studentFile
       ELSE IF ~valid_name(Truncate(nameIn, MAX_NAME - 1))
       THEN Out("Invalid name.", <<>>, <<>>) /\ UNCHANGED studentFile
       ELSE IF FirstBadMark(marksIn) # 0
       THEN /\ Out(IF marksIn[FirstBadMark(marksIn)].ok THEN "Marks must be 0-100."
                   ELSE "Invalid marks input.", <<>>, <<>>)
            /\ UNCHANGED studentFile
       ELSE LET s == calculate_student(
                       RawStudent(rollIn.v, Truncate(nameIn, MAX_NAME - 1),
                                  [i \in 1..SUBJECTS |-> marksIn[i].v]))
            IN IF canWrite
               THEN /\ studentFile' = append_student(studentFile, s)
                    /\ Out("Student added successfully!", <<s>>, <<>>)
               ELSE /\ UNCHANGED studentFile
                    /\ Out("Error: could not append to file.", <<s>>, <<>>)

\* The record feature_update_student leaves at the found index: a non-empty
\* line replaces the name, a mark read and within 0..100 replaces the mark.
UpdatedStudent(s, nameIn, marksIn) ==
    LET tmp == Truncate(nameIn, MAX_NAME - 1)
        name == IF Len(tmp) > 0 THEN tmp ELSE s.name
        marks == [j \in 1..SUBJECTS |->
                    IF marksIn[j].ok /\ marksIn[j].v >= 0 /\ marksIn[j].v <= 100 * MarkScale
                    THEN marksIn[j].v ELSE s.marks[j]]
    IN calculate_student([s EXCEPT !.name = name, !.marks = marks])

feature_update_student(rollIn, nameIn, marksIn, canWrite) ==
    /\ UNCHANGED <<session, backupFile, exports, credFile>>
    /\ IF ~MayEdit
       THEN Out("Permission denied: Only ADMIN/STAFF can update students.", <<>>, <<>>)
            /\ UNCHANGED studentFile
       ELSE IF ~rollIn.ok
       THEN Out("Invalid.", <<>>, <<>>) /\ UNCHANGED studentFile
       ELSE LET a == read_all_students(studentFile)
                i == FindRoll(a, rollIn.v)
            IN IF a = <<>>
               THEN Out("No records.", <<>>, <<>>) /\ UNCHANGED studentFile
               ELSE IF i = 0
               THEN Out("Roll not found.", a, <<>>) /\ UNCHANGED studentFile
               ELSE LET b == [a EXCEPT ![i] = UpdatedStudent(a[i], nameIn, marksIn)]
                    IN IF canWrite
                       THEN /\ studentFile' = overwrite_students(b)
                            /\ Out("Record updated.", b, <<>>)
                       ELSE /\ UNCHANGED studentFile
                            /\ Out("Error saving updates.", b, <<>>)

\* arr with the element at index i removed.
RemoveAt(a, i) == SubSeq(a, 1, i - 1) \o SubSeq(a, i + 1, Len(a))

feature_delete_student(rollIn, canWrite) ==
    /\ UNCHANGED <<session, backupFile, exports, credFile>>
    /\ IF ~MayEdit
       THEN Out("Permission denied.", <<>>, <<>>) /\ UNCHANGED studentFile
       ELSE IF ~rollIn.ok
       THEN Out("Invalid.", <<>>, <<>>) /\ UNCHANGED studentFile
       ELSE LET a == read_all_students(studentFile)
                i == FindRoll(a, rollIn.v)
            IN IF a = <<>>
               THEN Out("No records.", <<>>, <<>>) /\ UNCHANGED studentFile
               ELSE IF i = 0
               THEN Out("Roll not found.", a, <<>>) /\ UNCHANGED studentFile
               ELSE IF canWrite
               THEN /\ studentFile' = overwrite_students(RemoveAt(a, i))
                    /\ Out("Deleted successfully.", RemoveAt(a, i), <<>>)
               ELSE /\ UNCHANGED studentFile
                    /\ Out("Error deleting.", RemoveAt(a, i), <<>>)

feature_delete_all(yes, canWrite) ==
    /\ UNCHANGED <<session, backupFile, exports, credFile>>
    /\ IF currentRole # ADMIN
       THEN Out("Only ADMIN can delete all records.", <<>>, <<>>) /\ UNCHANGED studentFile
       ELSE IF ~yes
       THEN Out("Operation cancelled.", <<>>, <<>>) /\ UNCHANGED studentFile
       ELSE IF canWrite
       THEN studentFile' = FileOf(<<>>) /\ Out("All records deleted.", <<>>, <<>>)
       ELSE UNCHANGED studentFile /\ Out("Error clearing file.", <<>>, <<>>)

\* feature_display_all: the whole snapshot on the screen.
feature_display_all ==
    /\ UNCHANGED <<session, studentFile, backupFile, exports, credFile>>
    /\ LET a == read_all_students(studentFile)
       IN IF a = <<>> THEN Out("No records to display.", <<>>, <<>>)
          ELSE Out("table", a, a)

(* ------------------------------------------------------- query features *)
\* contains_case_insensitive: needle occurs in hay, letters compared in lower case.
contains_case_insensitive(hay, needle) ==
    \/ Len(needle) = 0
    \/ \E i \in 1..Len(hay) :
          /\ i + Len(needle) - 1 <= Len(hay)
          /\ Lower(SubSeq(hay, i, i + Len(needle) - 1)) = Lower(needle)

\* portable_strcasecmp: the difference of the first bytes that differ in lower
\* case, the end of a string counting as 0.
RECURSIVE portable_strcasecmp(_, _)
portable_strcasecmp(a, b) ==
    LET ca == IF a = <<>> THEN 0 ELSE tolower(Head(a))
        cb == IF b = <<>> THEN 0 ELSE tolower(Head(b))
    IN IF ca # cb THEN ca - cb
       ELSE IF ca = 0 THEN 0
       ELSE portable_strcasecmp(Tail(a), Tail(b))

\* The elements of a whose index is in keep, in the order of a, from index i on.
RECURSIVE Pick(_, _, _)
Pick(a, keep, i) ==
    IF i > Len(a) THEN <<>>
    ELSE (IF i \in keep THEN <<a[i]>> ELSE <<>>) \o Pick(a, keep, i + 1)

\* The test feature_search applies to a record under choice ch.
SearchMatch(r, ch, text, roll, lo, hi) ==
    IF ch = 1 THEN contains_case_insensitive(r.name, Truncate(text, USER_WIDTH))
    ELSE IF ch = 2 THEN r.roll = roll
    ELSE IF ch = 3 THEN /\ r.percentage * MarkScale >= lo * PctScale
                        /\ r.percentage * MarkScale <= hi * PctScale
    ELSE IF ch = 4 THEN portable_strcasecmp(r.grade, Truncate(text, 7)) = 0
    ELSE FALSE

\* The records feature_search displays: every match, or the first for a roll.
SearchHits(a, ch, text, roll, lo, hi) ==
    LET all == Pick(a, {i \in 1..Len(a) : SearchMatch(a[i], ch, text, roll, lo, hi)}, 1)
    IN IF ch = 2 THEN Truncate(all, 1) ELSE all

\* feature_search: chIn the menu choice, textIn the line typed for a name or a
\* grade, rollIn, loIn and hiIn the numbers read.
feature_search(chIn, textIn, rollIn, loIn, hiIn) ==
    /\ UNCHANGED <<session, studentFile, backupFile, exports, credFile>>
    /\ waiting' = TRUE
    /\ arr' = IF chIn.ok THEN read_all_students(studentFile) ELSE <<>>
    /\ shown' = IF (chIn.v = 2 /\ ~rollIn.ok) \/ (chIn.v = 3 /\ (~loIn.ok \/ ~hiIn.ok))
              THEN <<>>
              ELSE SearchHits(arr', chIn.v, textIn, rollIn.v, loIn.v, hiIn.v)
    /\ msg' = IF ~chIn.ok THEN "Invalid."
              ELSE IF arr' = <<>> THEN "No records."
              ELSE IF (chIn.v = 2 /\ ~rollIn.ok) \/ (chIn.v = 3 /\ (~loIn.ok \/ ~hiIn.ok))
              THEN "Invalid."
              ELSE IF shown' = <<>> THEN "No matching records found."
              ELSE "table"

(* -------------------------------------------------------------- sorting *)
\* a - b in 32-bit two's complement.
Sub32(a, b) ==
    IF (a >= 0) = (b >= 0) THEN a - b
    ELSE IF a >= 0
    THEN IF a > INT_MAX + b THEN (a - INT_MAX - 1) + ((-(b + 1)) - INT_MAX)
         ELSE a - b
    ELSE IF a < INT_MIN + b THEN (a + INT_MAX + 1) + ((INT_MAX - b) + 1)
         ELSE a - b

cmp_roll_asc(a, b) == Sub32(a.roll, b.roll)
cmp_roll_desc(a, b) == Sub32(b.roll, a.roll)
cmp_name(a, b) == portable_strcasecmp(a.name, b.name)
cmp_marks_desc(a, b) ==
    LET diff == b.total - a.total
    IN IF diff > 0 THEN 1 ELSE IF diff < 0 THEN -1 ELSE 0

\* The comparator feature_sorting hands to qsort for choice ch in 1..4.
Compare(ch, a, b) ==
    IF ch = 1 THEN cmp_roll_asc(a, b)
    ELSE IF ch = 2 THEN cmp_roll_desc(a, b)
    ELSE IF ch = 3 THEN cmp_name(a, b)
    ELSE cmp_marks_desc(a, b)

Arrangements(n) == {p \in [1..n -> 1..n] : \A i, j \in 1..n : p[i] = p[j] => i = j}

\* The arrays qsort may leave: it promises no order between elements that
\* compare equal, so every arrangement in which no element is followed by one
\* the comparator puts before it; when the comparator admits no such
\* arrangement (it is not an order), any arrangement.
qsort(a, ch) ==
    LET all == {[i \in 1..Len(a) |-> a[p[i]]] : p \in Arrangements(Len(a))}
        ordered == {q \in all : \A i, j \in 1..Len(q) : i < j => Compare(ch, q[i], q[j]) <= 0}
    IN IF ordered = {} THEN all ELSE ordered

feature_sorting(chIn, yes, canWrite) ==
    /\ UNCHANGED <<session, backupFile, exports, credFile>>
    /\ LET a == read_all_students(studentFile)
       IN IF a = <<>>
          THEN Out("No records to sort.", <<>>, <<>>) /\ UNCHANGED studentFile
          ELSE IF ~chIn.ok
          THEN Out("Invalid.", a, <<>>) /\ UNCHANGED studentFile
          ELSE IF chIn.v \notin 1..4
          THEN Out("Invalid choice.", a, <<>>) /\ UNCHANGED studentFile
          ELSE \E q \in qsort(a, chIn.v) :
                 IF ~yes
                 THEN Out("table", q, q) /\ UNCHANGED studentFile
                 ELSE IF canWrite
                 THEN studentFile' = overwrite_students(q) /\ Out("Saved.", q, q)
                 ELSE UNCHANGED studentFile /\ Out("Error saving.", q, q)

(* ------------------------------------------------------- backup, masking *)
COPY_BUF == 1024
XOR_BUF == 4096

\* while (fgets(buf, sizeof(buf), src)) fputs(buf, dst): every chunk fgets
\* reads is written as a C string, that is up to its first NUL.
RECURSIVE CopyChunks(_)
CopyChunks(chunks) ==
    IF chunks = <<>> THEN <<>> ELSE CStr(Head(chunks)) \o CopyChunks(Tail(chunks))

CopyLines(bytes) == CopyChunks(FgetsAll(bytes, COPY_BUF))

feature_backup(canWrite) ==
    /\ UNCHANGED <<session, studentFile, credFile, exports>>
    /\ IF ~studentFile.exists
       THEN Out("No data to backup.", <<>>, <<>>) /\ UNCHANGED backupFile
       ELSE IF ~canWrite
       THEN Out("Error creating backup.", <<>>, <<>>) /\ UNCHANGED backupFile
       ELSE /\ backupFile' = FileOf(CopyLines(studentFile.bytes))
            /\ Out("Backup saved", <<>>, <<>>)

feature_restore(yes, canWrite) ==
    /\ UNCHANGED <<session, backupFile, exports, credFile>>
    /\ IF ~yes
       THEN Out("Restore cancelled.", <<>>, <<>>) /\ UNCHANGED studentFile
       ELSE IF ~backupFile.exists
       THEN Out("Backup file not found.", <<>>, <<>>) /\ UNCHANGED studentFile
       ELSE IF ~canWrite
       THEN Out("Error restoring.", <<>>, <<>>) /\ UNCHANGED studentFile
       ELSE /\ studentFile' = FileOf(CopyLines(backupFile.bytes))
            /\ Out("Restore complete.", <<>>, <<>>)

\* a ^ b on the low n bits.
RECURSIVE XorBits(_, _, _)
XorBits(a, b, n) ==
    IF n = 0 THEN 0
    ELSE 2 * XorBits(a \div 2, b \div 2, n - 1) + (IF a % 2 = b % 2 THEN 0 ELSE 1)

\* One pass of xor_file's loop over a chunk of at most XOR_BUF bytes.
XorChunk(chunk, key) == [i \in 1..Len(chunk) |-> XorBits(chunk[i], key, 8)]

\* A transform whose loop stops after the first chunk.
xor_file_one_chunk(bytes, key) ==
    LET n == Min(Len(bytes), XOR_BUF)
    IN XorChunk(SubSeq(bytes, 1, n), key) \o SubSeq(bytes, n + 1, Len(bytes))

\* xor_file: chunk after chunk read, masked and written back where it was read.
RECURSIVE xor_file(_, _)
xor_file(bytes, key) ==
    IF bytes = <<>> THEN <<>>
    ELSE LET n == Min(Len(bytes), XOR_BUF)
         IN XorChunk(SubSeq(bytes, 1, n), key)
            \o xor_file(SubSeq(bytes, n + 1, Len(bytes)), key)

\* feature_toggle_encryption: key is the byte getchar returned.
feature_toggle_encryption(yes, key) ==
    /\ UNCHANGED <<session, backupFile, exports, credFile>>
    /\ IF currentRole # ADMIN
       THEN Out("Only ADMIN can toggle encryption.", <<>>, <<>>) /\ UNCHANGED studentFile
       ELSE IF ~yes
       THEN Out("Cancelled.", <<>>, <<>>) /\ UNCHANGED studentFile
       ELSE /\ studentFile' = IF studentFile.exists
                              THEN FileOf(xor_file(studentFile.bytes, key))
                              ELSE studentFile
            /\ Out("XOR applied", <<>>, <<>>)

(* --------------------------------------------------------------- export *)
COMMA == 44
QUOTE == 34

\* "Math", "Science", "English"
subjectNames ==
    <<<<77, 97, 116, 104>>,
      <<83, 99, 105, 101, 110, 99, 101>>,
      <<69, 110, 103, 108, 105, 115, 104>>>>

\* "%.2f" of a percentage: hundredths of a point, rounded to the nearest.
FormatPct(p) == FormatMark((p * MarkScale) \div PctScale)

\* "Roll,Name,Math,Science,English,Total,Percentage,Grade\n"
CsvHeader ==
    <<82, 111, 108, 108, 44, 78, 97, 109, 101, 44>>
    \o subjectNames[1] \o <<COMMA>> \o subjectNames[2] \o <<COMMA>> \o subjectNames[3]
    \o <<44, 84, 111, 116, 97, 108, 44, 80, 101, 114, 99, 101, 110, 116, 97, 103, 101, 44, 71, 114, 97, 100, 101, 10>>

RECURSIVE CommaMarks(_)
CommaMarks(marks) ==
    IF marks = <<>> THEN <<>>
    ELSE <<COMMA>> \o FormatMark(Head(marks)) \o CommaMarks(Tail(marks))

\* One row of the delimited export: roll, quoted name, marks and derived fields.
CsvRow(r) ==
    IntToText(r.roll) \o <<COMMA, QUOTE>> \o r.name \o <<QUOTE>> \o CommaMarks(r.marks)
    \o <<COMMA>> \o FormatMark(r.total) \o <<COMMA>> \o FormatPct(r.percentage)
    \o <<COMMA>> \o r.grade \o <<LF>>

RECURSIVE CsvRows(_)
CsvRows(a) == IF a = <<>> THEN <<>> ELSE CsvRow(Head(a)) \o CsvRows(Tail(a))

\* "<subject>: <mark>\n" for every subject from j on.
RECURSIVE ReportMarks(_, _)
ReportMarks(marks, j) ==
    IF j > Len(marks) THEN <<>>
    ELSE subjectNames[j] \o <<58, 32>> \o FormatMark(marks[j]) \o <<LF>>
         \o ReportMarks(marks, j + 1)

\* One entry of the report, ended by its separator line.
ReportEntry(r) ==
    <<82, 111, 108, 108, 58, 32>> \o IntToText(r.roll) \o <<LF>>
    \o <<78, 97, 109, 101, 58, 32>> \o r.name \o <<LF>>
    \o ReportMarks(r.marks, 1)
    \o <<84, 111, 116, 97, 108, 58, 32>> \o FormatMark(r.total) \o <<LF>>
    \o <<80, 101, 114, 99, 101, 110, 116, 97, 103, 101, 58, 32>> \o FormatPct(r.percentage) \o <<LF>>
    \o <<71, 114, 97, 100, 101, 58, 32>> \o r.grade \o <<LF>>
    \o <<45, 45, 45, 45, 45, 45, 45, 45, 45, 45, 45, 45, 45, 45, 45, 45, 45, 10>>

RECURSIVE ReportEntries(_)
ReportEntries(a) ==
    IF a = <<>> THEN <<>> ELSE ReportEntry(Head(a)) \o ReportEntries(Tail(a))

\* "Student Report Generated on <ts>\n\n", ts being what ctime returned.
ReportHeader(ts) ==
    <<83, 116, 117, 100, 101, 110, 116, 32, 82, 101, 112, 111, 114, 116, 32, 71, 101, 110, 101, 114, 97, 116, 101, 100, 32, 111, 110, 32>> \o ts \o <<LF, LF>>

\* feature_export: canCsv and canReport tell whether each fopen(.., "w")
\* succeeds; a file that opens is truncated at once, before the other is
\* known to open.  ts is the text of the time.
feature_export(canCsv, canReport, ts) ==
    /\ UNCHANGED <<session, studentFile, backupFile, credFile>>
    /\ LET a == read_all_students(studentFile)
       IN IF a = <<>>
          THEN Out("No records to export.", <<>>, <<>>) /\ UNCHANGED exports
          ELSE IF ~canCsv \/ ~canReport
          THEN /\ csvFile' = IF canCsv THEN FileOf(<<>>) ELSE csvFile
               /\ reportFile' = IF canReport THEN FileOf(<<>>) ELSE reportFile
               /\ Out("Error creating export files.", a, <<>>)
          ELSE /\ csvFile' = FileOf(CsvHeader \o CsvRows(a))
               /\ reportFile' = FileOf(ReportHeader(ts) \o ReportEntries(a))
               /\ Out("Exported", a, <<>>)

(* ----------------------------------------------------------- statistics *)
\* The loop of feature_statistics from index i on; st carries maxPerc,
\* minPerc, sum, pass, maxIdx and minIdx (indices from 1 here).
RECURSIVE StatsLoop(_, _, _)
StatsLoop(a, i, st) ==
    IF i > Len(a) THEN st
    ELSE LET p == a[i].percentage
             up == p > st.maxPerc
             down == p < st.minPerc
         IN StatsLoop(a, i + 1,
               [sum |-> st.sum + p,
                maxPerc |-> IF up THEN p ELSE st.maxPerc,
                maxIdx |-> IF up THEN i ELSE st.maxIdx,
                minPerc |-> IF down THEN p ELSE st.minPerc,
                minIdx |-> IF down THEN i ELSE st.minIdx,
                pass |-> IF p >= 50 * PctScale THEN st.pass + 1 ELSE st.pass])

StatsStart ==
    [sum |-> 0, maxPerc |-> -PctScale, maxIdx |-> 1,
     minPerc |-> 101 * PctScale, minIdx |-> 1, pass |-> 0]

\* The report printed: the count, the average as sum over count, the
\* records named as highest and lowest, and the two counts.
StatsReport(a) ==
    LET st == StatsLoop(a, 1, StatsStart)
    IN [count |-> Len(a), sum |-> st.sum,
        highest |-> a[st.maxIdx], lowest |-> a[st.minIdx],
        pass |-> st.pass, fail |-> Len(a) - st.pass]

feature_statistics ==
    /\ UNCHANGED <<session, studentFile, backupFile, exports, credFile>>
    /\ LET a == read_all_students(studentFile)
       IN IF a = <<>>
          THEN Out("No records.", <<>>, <<>>)
          ELSE Out("statistics", a, <<StatsReport(a)>>)

(* ---------------------------------------------------- credential manager *)
\* feature_manage_credentials: chIn the choice, userIn, passIn and roleIn the
\* lines typed; the role is put in upper case and otherwise stored as typed.
feature_manage_credentials(chIn, userIn, passIn, roleIn, canWrite) ==
    /\ UNCHANGED <<session, studentFile, backupFile, exports>>
    /\ arr' = <<>> /\ shown' = <<>> /\ waiting' = TRUE
    /\ LET user == Truncate(userIn, USER_WIDTH)
           pass == Truncate(passIn, USER_WIDTH)
           role == Upper(Truncate(roleIn, ROLE_WIDTH))
       IN IF currentRole # ADMIN
          THEN msg' = "Only ADMIN can manage users." /\ UNCHANGED credFile
          ELSE IF ~chIn.ok
          THEN msg' = "Invalid." /\ UNCHANGED credFile
          ELSE IF chIn.v = 1
          THEN IF canWrite
               THEN credFile' = add_credential(credFile, user, pass, role)
                    /\ msg' = "User added."
               ELSE UNCHANGED credFile /\ msg' = "Error."
          ELSE IF chIn.v = 2
          THEN IF cred_found(credFile, user) /\ canWrite
               THEN credFile' = reset_password(credFile, user, pass)
                    /\ msg' = "Password reset."
               ELSE UNCHANGED credFile /\ msg' = "User not found."
          ELSE IF chIn.v = 3
          THEN IF cred_found(credFile, user) /\ canWrite
               THEN credFile' = remove_credential(credFile, user)
                    /\ msg' = "User removed."
               ELSE UNCHANGED credFile /\ msg' = "User not found."
          ELSE msg' = "Invalid." /\ UNCHANGED credFile

(* ------------------------------------------------------ login and menus *)
\* main_menu_dispatch: the menu a role gets; any other role gets the guest's.
main_menu_dispatch(role) ==
    IF role = ADMIN THEN "admin_menu"
    ELSE IF role = STAFF THEN "staff_menu"
    ELSE IF role = PRINCIPAL THEN "principal_menu"
    ELSE IF role = STUDENT THEN "student_menu"
    ELSE "guest_menu"

Menus == {"admin_menu", "staff_menu", "principal_menu", "student_menu", "guest_menu"}

MAX_ATTEMPTS == 3

\* main, up to the first login prompt: the default credentials are written if
\* there is no credential file (and it can be created).
main_start(canWrite) ==
    /\ pc = "boot"
    /\ credFile' = IF canWrite THEN ensure_default_credentials(credFile) ELSE credFile
    /\ pc' = "login"
    /\ attempts' = 0 /\ passes' = 0
    /\ Prompt("Username:")
    /\ UNCHANGED <<studentFile, backupFile, exports, currentUser, currentRole>>

\* One pass of login_system's loop in which a user name and a password are
\* read; on the third failure the loop ends and main returns.  passes counts
\* the passes of the call in progress and is 0 once it has returned.
login_system(user, pass) ==
    /\ pc = "login"
    /\ attempts < MAX_ATTEMPTS
    /\ UNCHANGED <<studentFile, backupFile, exports, credFile>>
    /\ arr' = <<>> /\ shown' = <<>> /\ waiting' = FALSE
    /\ IF check_credentials(credFile, user, pass)
       THEN /\ currentUser' = Truncate(user, MAX_USER - 1)
            /\ currentRole' = Truncate(matched_role(credFile, user, pass), MAX_ROLE - 1)
            /\ msg' = "Login successful."
            /\ pc' = main_menu_dispatch(currentRole')
            /\ passes' = 0
            /\ UNCHANGED attempts
       ELSE /\ attempts' = attempts + 1
            /\ passes' = IF attempts' < MAX_ATTEMPTS THEN passes + 1 ELSE 0
            /\ msg' = IF attempts' < MAX_ATTEMPTS THEN "Invalid credentials."
                      ELSE "Maximum attempts reached."
            /\ pc' = IF attempts' < MAX_ATTEMPTS THEN "login" ELSE "exited"
            /\ UNCHANGED <<currentUser, currentRole>>

\* The passes of the loop the model follows.
MaxPasses == 4

\* A pass of the loop in which no user name can be read: scanf fails, and the
\* loop goes round again without counting an attempt.
login_no_input ==
    /\ pc = "login"
    /\ attempts < MAX_ATTEMPTS
    /\ passes < MaxPasses
    /\ passes' = passes + 1
    /\ UNCHANGED <<studentFile, backupFile, exports, credFile, currentUser, currentRole,
                   pc, attempts, msg, arr, shown, waiting>>

\* A logout choice after which the menu loop goes on.
logout_stays ==
    /\ Prompt("Logging out...")
    /\ UNCHANGED <<session, studentFile, backupFile, exports, credFile>>

\* The logout choice of a role menu: the menu returns, and main after it.
logout ==
    /\ pc' = "exited"
    /\ Prompt("Logging out...")
    /\ UNCHANGED <<studentFile, backupFile, exports, credFile, currentUser, currentRole,
                 attempts, passes>>

\* A choice the menu does not have.
invalid_choice ==
    /\ Out("Invalid choice.", <<>>, <<>>)
    /\ UNCHANGED <<session, studentFile, backupFile, exports, credFile>>

\* pause_and_wait returns, and the menu loop clears the screen and prompts
\* again; the handler's array was freed when it returned.
pause_and_wait ==
    /\ waiting
    /\ Prompt("")
    /\ UNCHANGED <<session, studentFile, backupFile, exports, credFile>>

\* The program is run again: a new process, whose globals are zeroed, over the
\* files the last one left.
run_again ==
    /\ pc = "exited"
    /\ pc' = "boot"
    /\ currentUser' = <<>> /\ currentRole' = <<>>
    /\ attempts' = 0 /\ passes' = 0
    /\ Prompt("")
    /\ UNCHANGED <<studentFile, backupFile, exports, credFile>>

\* "View My Record" of student_menu: a user name of digits only is read as a
\* roll, any other is compared with the names; the first match is displayed.
\* roll is what atoi(currentUser) returned.
view_my_record(roll) ==
    /\ UNCHANGED <<session, studentFile, backupFile, exports, credFile>>
    /\ LET a == read_all_students(studentFile)
           isnum == \A i \in 1..Len(currentUser) : isdigit(currentUser[i])
           ByRoll(r) == r.roll = roll
           ByName(r) == portable_strcasecmp(r.name, currentUser) = 0
           Match(r) == IF isnum THEN ByRoll(r) ELSE ByName(r)
           hits == Pick(a, {i \in 1..Len(a) : Match(a[i])}, 1)
       IN IF a = <<>> THEN Out("No records.", <<>>, <<>>)
          ELSE IF hits = <<>> THEN Out("No record found for you.", a, <<>>)
          ELSE Out("table", a, <<hits[1]>>)

\* What atoi(text) may return: its value, or any integer when the digits do
\* not fit an int (IntSample stands for the integers).
atoi_results(text, IntSample) ==
    IF atoi_overflows(text) THEN IntSample ELSE {atoi(text)}

(* ---------------------------------------------------------------- inputs *)
MaxStudents == 1
MaxRoll == 1
MaxCredLines == 6

NameStudent == <<83, 116, 117, 100, 101, 110, 116>>
UserLong == [i \in 1..MAX_USER |-> ZERO + 1]
PassP == <<112>>
RoleTeacher == <<116, 101, 97, 99, 104, 101, 114>>
KeyK == 107

Booleans == {TRUE, FALSE}
Writable == {TRUE}

\* What the menus of Spec are fed.
Rolls == 1..MaxRoll
RollIn == {Scan(r) : r \in Rolls}
NameIn == {NameStudent}
GoodMarks == <<Scan(90000), Scan(85000), Scan(95000)>>
MarksIn == {GoodMarks}
KeepMarks == <<Scan(-1000), Scan(-1000), Scan(-1000)>>
UpdateNameIn == {<<>>}
UpdateMarksIn == {KeepMarks}
SortIn == {Scan(1), Scan(4)}
IntSample == Rolls \cup {0, -1, INT_MAX}

CredUsers == {Lower(ADMIN), UserLong}
CredRoles == {Lower(STUDENT), RoleTeacher}
LoginUsers == CredUsers \cup {Lower(STAFF), Lower(GUEST), Lower(PRINCIPAL), Lower(STUDENT)}

\* The step appends no line to a student file that holds n lines already.
StoreRoom(n) ==
    studentFile' # studentFile => Len(FgetsAll(studentFile.bytes, LINE_BUF)) < n
CredRoom(n) == Cardinality({i \in 1..Len(credFile.bytes) : credFile.bytes[i] = LF}) < n

(* --------------------------------------------------------------- menus *)
add_student_choice ==
    \E r \in RollIn, n \in NameIn, m \in MarksIn, w \in Writable :
       feature_add_student(r, n, m, w) /\ StoreRoom(MaxStudents)

update_choice ==
    \E r \in RollIn, n \in UpdateNameIn, m \in UpdateMarksIn, w \in Writable :
       feature_update_student(r, n, m, w)

delete_choice == \E r \in RollIn, w \in Writable : feature_delete_student(r, w)

delete_all_choice == \E y \in Booleans, w \in Writable : feature_delete_all(y, w)

search_choice ==
    \/ feature_search(Scan(1), Lower(NameStudent), NoScan, NoScan, NoScan)
    \/ \E r \in RollIn : feature_search(Scan(2), <<>>, r, NoScan, NoScan)
    \/ feature_search(Scan(3), <<>>, NoScan, Scan(90000), Scan(100000))
    \/ feature_search(Scan(4), Lower(GradeAplus), NoScan, NoScan, NoScan)

sorting_choice ==
    \E c \in SortIn, y \in Booleans, w \in Writable : feature_sorting(c, y, w)

credentials_choice ==
    \/ /\ CredRoom(MaxCredLines)
       /\ \E u \in CredUsers, r \in CredRoles, w \in Writable :
             feature_manage_credentials(Scan(1), u, PassP, r, w)
    \/ \E u \in CredUsers, w \in Writable :
          feature_manage_credentials(Scan(2), u, PassP, <<>>, w)
    \/ \E u \in CredUsers, w \in Writable :
          feature_manage_credentials(Scan(3), u, <<>>, <<>>, w)

\* common_reports_menu: backup, restore, mask toggle, or back.  Its export
\* choice writes only the two export files, which no handler reads; it is
\* taken in SpecExport.
common_reports_menu ==
    \/ \E w \in Writable : feature_backup(w)
    \/ \E y \in Booleans, w \in Writable : feature_restore(y, w)
    \/ \E y \in Booleans : feature_toggle_encryption(y, KeyK)
    \/ Refuse("back")

admin_menu ==
    /\ pc = "admin_menu" /\ ~waiting
    /\ \/ add_student_choice
       \/ feature_display_all
       \/ search_choice
       \/ update_choice
       \/ delete_choice
       \/ delete_all_choice
       \/ sorting_choice
       \/ feature_statistics
       \/ credentials_choice
       \/ common_reports_menu
       \/ logout
       \/ invalid_choice

staff_menu ==
    /\ pc = "staff_menu" /\ ~waiting
    /\ \/ feature_display_all
       \/ search_choice
       \/ add_student_choice
       \/ update_choice
       \/ delete_choice
       \/ sorting_choice
       \/ feature_statistics
       \/ common_reports_menu
       \/ logout
       \/ invalid_choice

guest_menu ==
    /\ pc = "guest_menu" /\ ~waiting
    /\ \/ feature_display_all
       \/ search_choice
       \/ common_reports_menu
       \/ logout
       \/ invalid_choice

principal_menu ==
    /\ pc = "principal_menu" /\ ~waiting
    /\ \/ feature_display_all
       \/ search_choice
       \/ feature_statistics
       \/ common_reports_menu
       \/ logout
       \/ invalid_choice

student_menu ==
    /\ pc = "student_menu" /\ ~waiting
    /\ \/ \E r \in atoi_results(currentUser, IntSample) : view_my_record(r)
       \/ logout
       \/ Refuse("Invalid.")

login == \E u \in LoginUsers : \E p \in {u, PassP} : login_system(u, p)

boot == \E w \in Writable : main_start(w)

Init ==
    /\ studentFile = NoFile
    /\ backupFile = NoFile
    /\ credFile = NoFile
    /\ csvFile = NoFile
    /\ reportFile = NoFile
    /\ currentUser = <<>>
    /\ currentRole = <<>>
    /\ pc = "boot"
    /\ attempts = 0 /\ passes = 0
    /\ msg = ""
    /\ arr = <<>>
    /\ shown = <<>>
    /\ waiting = FALSE

Next ==
    \/ boot
    \/ login
    \/ login_no_input
    \/ admin_menu
    \/ staff_menu
    \/ guest_menu
    \/ principal_menu
    \/ student_menu
    \/ pause_and_wait
    \/ run_again

Spec == Init /\ [][Next]_vars

(* ------------------------------------------------ the store under ADMIN *)
\* The menu choices of an ADMIN session that read or write the student file,
\* fed from the given sets; maxN bounds the lines of the student file.
StoreMenu(maxN, rollIn, nameIn, marksIn, upNameIn, upMarksIn, sortIn, writes) ==
    /\ pc = "admin_menu" /\ ~waiting
    /\ \/ \E r \in rollIn, n \in nameIn, m \in marksIn, w \in writes :
             feature_add_student(r, n, m, w) /\ StoreRoom(maxN)
       \/ \E r \in rollIn, n \in upNameIn, m \in upMarksIn, w \in writes :
             feature_update_student(r, n, m, w)
       \/ \E r \in rollIn, w \in writes : feature_delete_student(r, w)
       \/ \E y \in Booleans, w \in writes : feature_delete_all(y, w)
       \/ \E c \in sortIn, y \in Booleans, w \in writes : feature_sorting(c, y, w)
       \/ \E w \in writes : feature_backup(w)
       \/ \E y \in Booleans, w \in writes : feature_restore(y, w)
       \/ feature_display_all

\* An ADMIN session at its menu after the first run's login, no student file yet.
InitStore ==
    /\ studentFile = NoFile
    /\ backupFile = NoFile
    /\ credFile = FileOf(DefaultCredentials)
    /\ csvFile = NoFile
    /\ reportFile = NoFile
    /\ currentUser = Lower(ADMIN)
    /\ currentRole = ADMIN
    /\ pc = "admin_menu"
    /\ attempts = 0 /\ passes = 0
    /\ msg = "Login successful."
    /\ arr = <<>>
    /\ shown = <<>>
    /\ waiting = FALSE

\* SpecStore: two rolls, a name that holds the delimiter, inputs scanf rejects.
StoreMaxStudents == 2
NameAl == <<65, 108>>
NameBar == <<66, 124, 55>>
StoreRollIn == {Scan(1), Scan(2), NoScan}
StoreNameIn == {NameBar, <<>>}
StoreMarksIn == {GoodMarks,
                 <<Scan(90000), NoScan, Scan(0)>>,
                 <<Scan(100001), Scan(0), Scan(0)>>}
StoreUpdateNameIn == {<<>>}
StoreUpdateMarksIn == {KeepMarks, <<Scan(50010), NoScan, Scan(100001)>>}
StoreSortIn == {Scan(1), Scan(2), Scan(3), Scan(4), Scan(5), NoScan}

store_menu ==
    StoreMenu(StoreMaxStudents, StoreRollIn, StoreNameIn, StoreMarksIn,
              StoreUpdateNameIn, StoreUpdateMarksIn, StoreSortIn, Writable)

NextStore == store_menu \/ pause_and_wait

SpecStore == InitStore /\ [][NextStore]_vars

\* SpecMarks: one roll, marks on and next to every grade threshold.
MarksMaxStudents == 1
AllOf(m) == <<Scan(m), Scan(m), Scan(m)>>
Thresholds == {90000, 80000, 70000, 60000, 50000}
BoundaryMarks == {AllOf(m) : m \in Thresholds} \cup {AllOf(m - 10) : m \in Thresholds}
MarksRollIn == {Scan(1)}
MarksNameIn == {NameAl}
MarksIn2 == BoundaryMarks \cup {GoodMarks}
MarksUpdateNameIn == {<<>>}
MarksUpdateMarksIn == {KeepMarks, <<Scan(89990), Scan(-1000), NoScan>>}
MarksSortIn == {Scan(4)}

marks_menu ==
    StoreMenu(MarksMaxStudents, MarksRollIn, MarksNameIn, MarksIn2,
              MarksUpdateNameIn, MarksUpdateMarksIn, MarksSortIn, Booleans)

NextMarks == marks_menu \/ pause_and_wait

SpecMarks == InitStore /\ [][NextMarks]_vars

(* ------------------------------------------------------- the record codec *)
\* SpecCodec: one Student is encoded to a line, and the line decoded.
CodecRolls == {1, 20}
CodecNames == {NameAl, NameBar}
CodecMarks == {0, 89990, 89999, 100000}

CodecStudents ==
    {calculate_student(RawStudent(r, n, <<m1, m2, m3>>)) :
        r \in CodecRolls, n \in CodecNames,
        m1 \in CodecMarks, m2 \in CodecMarks, m3 \in CodecMarks}

InitCodec ==
    /\ studentFile = NoFile
    /\ backupFile = NoFile
    /\ credFile = NoFile
    /\ csvFile = NoFile
    /\ reportFile = NoFile
    /\ currentUser = <<>>
    /\ currentRole = <<>>
    /\ pc = "codec"
    /\ attempts = 0 /\ passes = 0
    /\ msg = ""
    /\ arr \in {<<s>> : s \in CodecStudents}
    /\ shown = <<>>
    /\ waiting = FALSE

\* The line write_student_to_file prints for arr[1] becomes the file.
codec_encode ==
    /\ pc = "codec"
    /\ studentFile' = FileOf(write_student_to_file(arr[1]))
    /\ pc' = "encoded"
    /\ UNCHANGED <<backupFile, exports, credFile, currentUser, currentRole, attempts,
                   passes, msg, arr, shown, waiting>>

\* parse_line_to_student reads the line back into shown.
codec_decode ==
    /\ pc = "encoded"
    /\ IF parse_ok(studentFile.bytes)
       THEN shown' = <<parse_line_to_student(studentFile.bytes)>> /\ msg' = "parsed"
       ELSE shown' = <<>> /\ msg' = "skipped"
    /\ pc' = "decoded"
    /\ UNCHANGED <<studentFile, backupFile, exports, credFile, currentUser, currentRole,
                   attempts, passes, arr, waiting>>

NextCodec == codec_encode \/ codec_decode

SpecCodec == InitCodec /\ [][NextCodec]_vars

(* ------------------------------------------- handlers under every role *)
\* SpecGate: the gated handlers are entered under every role a session can
\* hold, whether or not the role's menu offers them.
GateRoles == {ADMIN, STAFF, PRINCIPAL, STUDENT, GUEST, Upper(RoleTeacher)}

InitGate ==
    /\ studentFile = FileOf(write_student_to_file(
                         calculate_student(RawStudent(1, NameStudent,
                            [i \in 1..SUBJECTS |-> GoodMarks[i].v]))))
    /\ backupFile = NoFile
    /\ credFile = FileOf(DefaultCredentials)
    /\ csvFile = NoFile
    /\ reportFile = NoFile
    /\ currentRole \in GateRoles
    /\ currentUser = Lower(currentRole)
    /\ pc = main_menu_dispatch(currentRole)
    /\ attempts = 0 /\ passes = 0
    /\ msg = "Login successful."
    /\ arr = <<>>
    /\ shown = <<>>
    /\ waiting = FALSE

toggle_choice == \E y \in Booleans : feature_toggle_encryption(y, KeyK)

gate_call ==
    /\ pc \in Menus /\ ~waiting
    /\ \/ add_student_choice
       \/ update_choice
       \/ delete_choice
       \/ delete_all_choice
       \/ credentials_choice
       \/ toggle_choice

NextGate == gate_call \/ pause_and_wait

SpecGate == InitGate /\ [][NextGate]_vars

(* ------------------------------------------------------------ properties *)
\* The records the program holds: read for a handler, shown, or on file.
Held == <<arr, shown, read_all_students(studentFile)>>

NoDupRolls ==
    LET a == read_all_students(studentFile)
    IN \A i, j \in 1..Len(a) : a[i].roll = a[j].roll => i = j

\* An add reports success only for a roll the file did not hold, and an add
\* that reports the roll as taken leaves the file as it was.
AddGuarded ==
    /\ msg' = "Student added successfully!" /\ waiting' /\ ~waiting
          => ~roll_exists(studentFile, arr'[1].roll)
    /\ msg' = "Roll number already exists!" /\ waiting' /\ ~waiting
          => studentFile' = studentFile

\* C1: roll uniqueness.  From an empty student file, after any sequence of
\* add, update, delete, delete-all, sort-and-save, backup and restore, no two
\* records read_all_students returns share a roll; an add whose roll is on
\* file is rejected and appends nothing.
C1_RollUniqueness == []NoDupRolls /\ [][AddGuarded]_vars

\* An add was refused for its roll, which a record of the file holds under a
\* name cut at the delimiter.
C1_Witness ==
    /\ msg = "Roll number already exists!"
    /\ \E r \in Rolls : roll_exists(studentFile, r)
    /\ \E i \in 1..Len(read_all_students(studentFile)) :
          read_all_students(studentFile)[i].name = <<66>>

\* The grade of a percentage by the threshold table: the first threshold,
\* highest first, the percentage reaches.
GradeTable(p) ==
    CASE p >= 90 * PctScale -> GradeAplus
      [] p >= 80 * PctScale /\ p < 90 * PctScale -> GradeA
      [] p >= 70 * PctScale /\ p < 80 * PctScale -> GradeB
      [] p >= 60 * PctScale /\ p < 70 * PctScale -> GradeC
      [] p >= 50 * PctScale /\ p < 60 * PctScale -> GradeD
      [] p < 50 * PctScale -> GradeF

Derived(s) ==
    /\ s.total = s.marks[1] + s.marks[2] + s.marks[3]
    /\ s.percentage * SUBJECTS * MarkScale = s.total * PctScale
    /\ s.grade = GradeTable(s.percentage)

\* C2: derived-field consistency.  Every record decoded from the file, built
\* by add-student or changed by update-student has total = the sum of its
\* marks, percentage = total / (100 x 3) x 100 and the grade of the threshold
\* table, a percentage on a threshold taking the grade of that threshold
\* (90.00 is A+, 89.99 is A, 50.00 is D, 49.99 is F).
C2_DerivedFields ==
    \A k \in 1..Len(Held) : \A i \in 1..Len(Held[k]) : Derived(Held[k][i])

\* An update has left a record just under the A+ threshold, and the backup
\* holds a record exactly on the D threshold.
C2_Witness ==
    /\ msg = "Record updated."
    /\ Len(arr) = 1 /\ arr[1].total = 269990 /\ arr[1].grade = GradeA
    /\ LET b == read_all_students(backupFile)
       IN Len(b) = 1 /\ b[1].percentage = 50 * PctScale /\ b[1].grade = GradeD

\* C3: codec round trip.  For a Student with a non-empty name and every mark
\* in 0..100, decoding the encoded line succeeds and yields the same record.
C3_RoundTrip == pc = "decoded" => msg = "parsed" /\ shown = arr

CredRows == ScanRows(credFile.bytes)

\* C4: credential uniqueness.  From the five default accounts, after any
\* sequence of credential add, reset-password and remove by an ADMIN session,
\* no user name is on two rows of the credential file.
C4_CredentialUniqueness ==
    \A i, j \in 1..Len(CredRows) : CredRows[i].user = CredRows[j].user => i = j

RoleSet == {ADMIN, STAFF, PRINCIPAL, STUDENT, GUEST}

\* C5: closed role set.  The role of every row of the credential file, and
\* the role of a logged-in session, is one of ADMIN, STAFF, PRINCIPAL, STUDENT
\* and GUEST.
C5_ClosedRoleSet ==
    /\ \A i \in 1..Len(CredRows) : CredRows[i].role \in RoleSet
    /\ pc \in Menus => currentRole \in RoleSet

ReadOnlyStep ==
    pc \in Menus /\ currentRole \in {PRINCIPAL, GUEST} => studentFile' = studentFile

\* C6: read-only roles.  In a session whose role is PRINCIPAL or GUEST no
\* menu choice changes the content of the student file.
C6_ReadOnlyRoles == [][ReadOnlyStep]_vars

DeniedEdit ==
    {"Permission denied: Only ADMIN/STAFF can add students.",
     "Permission denied: Only ADMIN/STAFF can update students.",
     "Permission denied."}

DeniedAdmin ==
    {"Only ADMIN can delete all records.", "Only ADMIN can manage users.",
     "Only ADMIN can toggle encryption."}

\* A gated handler entered without the role it asks for ends with its
\* permission-denied message whatever is typed, and leaves both files alone.
GatedStep ==
    /\ currentRole \notin {ADMIN, STAFF}
          /\ (add_student_choice \/ update_choice \/ delete_choice)
          => msg' \in DeniedEdit /\ UNCHANGED <<studentFile, credFile>>
    /\ currentRole # ADMIN
          /\ (delete_all_choice \/ credentials_choice \/ toggle_choice)
          => msg' \in DeniedAdmin /\ UNCHANGED <<studentFile, credFile>>

\* C7: role gating of mutations.  Add, update and delete under a role other
\* than ADMIN or STAFF, and delete-all, manage-credentials and mask-toggle
\* under a role other than ADMIN, end with a permission-denied outcome and
\* leave the student file and the credential file unchanged; the denial does
\* not depend on anything typed or on any file.
C7_RoleGating == [][GatedStep]_vars

\* A GUEST session was denied an add while the student file holds a record.
C7_Witness ==
    /\ currentRole = GUEST
    /\ msg = "Permission denied: Only ADMIN/STAFF can add students."
    /\ read_all_students(studentFile) # <<>>

LoginStep ==
    /\ pc' \in Menus /\ pc \notin Menus
          => /\ pc = "login" /\ attempts < MAX_ATTEMPTS
             /\ \E i \in 1..Len(CredRows) :
                   CredRows[i].user = currentUser' /\ CredRows[i].role = currentRole'
    /\ pc = "login" /\ attempts' # attempts
          => /\ attempts' = attempts + 1 /\ attempts' <= MAX_ATTEMPTS
             /\ pc' = IF attempts' = MAX_ATTEMPTS THEN "exited" ELSE "login"

\* C8: login attempt limit.  A session is logged in only by a login that
\* matches a credential row, and records that row's user name and role; the
\* third failed login ends the flow with no menu dispatched, and no fourth
\* attempt is taken.
C8_LoginLimit == [](pc = "login" => attempts < MAX_ATTEMPTS) /\ [][LoginStep]_vars

\* C9 as the specification states it: after an explicit logout the session
\* user name and role are empty.
C9_LogoutClears ==
    pc = "exited" /\ msg = "Logging out..." => currentUser = <<>> /\ currentRole = <<>>

LogoutStep ==
    /\ msg' = "Logging out..." /\ msg # "Logging out..."
          => /\ pc \in Menus /\ pc' = "exited"
             /\ UNCHANGED <<currentUser, currentRole, studentFile, backupFile, credFile>>
    /\ pc = "exited" /\ pc' # "exited"
          => pc' = "boot" /\ currentUser' = <<>> /\ currentRole' = <<>>

\* C9: logout ends the session.  An explicit logout from a role menu ends the
\* menu loop and the process: no menu choice is served afterwards, the files
\* and the session user name and role are left as they are, and only a new
\* run of the program starts with the user name and role empty.
C9_LogoutEnds == [](pc = "exited" => ~waiting) /\ [][LogoutStep]_vars

\* A STAFF session has logged out and its user name and role are still set.
C9_Witness ==
    /\ pc = "exited" /\ msg = "Logging out..."
    /\ currentRole = STAFF /\ currentUser = Lower(STAFF)

IsNumeric(text) == \A i \in 1..Len(text) : isdigit(text[i])

\* C10: student self-view confinement.  In a STUDENT session a view shows at
\* most one record: the one whose roll is the user name when the user name is
\* all digits, otherwise one whose name is the user name up to case.
C10_SelfView ==
    pc = "student_menu" =>
       /\ Len(shown) <= 1
       /\ \A i \in 1..Len(shown) :
             IF IsNumeric(currentUser)
             THEN IntToText(shown[i].roll) = StripZeros(currentUser)
             ELSE Lower(shown[i].name) = Lower(currentUser)

(* ------------------------------------------------------- the mask toggle *)
\* SpecMask: an ADMIN session toggles the mask over student files of several
\* contents, one of them longer than xor_file's buffer, with several keys:
\* a letter, the digit-to-delimiter key 'M', a line feed, and the byte that
\* (char)EOF is.
MaskLongLen == 4100
MaskKeys == {KeyK, 77, LF, 255}
MaskFiles ==
    {NoFile, FileOf(<<>>),
     FileOf(write_student_to_file(
               calculate_student(RawStudent(1, NameStudent,
                  [i \in 1..SUBJECTS |-> GoodMarks[i].v])))),
     FileOf(<<KeyK, 77, LF, 255, NUL>>),
     FileOf([i \in 1..MaskLongLen |-> 65 + (i % 2)])}

InitMask ==
    /\ studentFile \in MaskFiles
    /\ backupFile = NoFile
    /\ credFile = FileOf(DefaultCredentials)
    /\ csvFile = NoFile
    /\ reportFile = NoFile
    /\ currentUser = Lower(ADMIN)
    /\ currentRole = ADMIN
    /\ pc = "admin_menu"
    /\ attempts = 0 /\ passes = 0
    /\ msg = "Login successful."
    /\ arr = <<>>
    /\ shown = <<>>
    /\ waiting = FALSE

mask_menu ==
    /\ pc = "admin_menu" /\ ~waiting
    /\ \E y \in Booleans, k \in MaskKeys : feature_toggle_encryption(y, k)

NextMask == mask_menu \/ pause_and_wait

SpecMask == InitMask /\ [][NextMask]_vars

\* The bit of weight 2^j of byte a.
BitOf(a, j) == (a \div (2 ^ j)) % 2

\* Byte a with every bit flipped where byte k has a 1.
ByteXor(a, k) ==
    LET F[j \in 0..8] ==
          IF j = 8 THEN 0
          ELSE (IF BitOf(a, j) = BitOf(k, j) THEN 0 ELSE 2 ^ j) + F[j + 1]
    IN F[0]

Masked(f, k) ==
    IF f.exists THEN FileOf([i \in 1..Len(f.bytes) |-> ByteXor(f.bytes[i], k)]) ELSE f

MaskStep ==
    msg' = "XOR applied" /\ ~waiting /\ waiting'
       => \E k \in MaskKeys : studentFile' = Masked(studentFile, k)

MaskTwice ==
    \A k \in MaskKeys :
       xor_file(xor_file(studentFile.bytes, k), k) = studentFile.bytes

\* C11: mask-toggle involution.  One mask toggle XORs every byte of the
\* student file with the key and keeps its length, and the transform applied
\* twice with the same key gives back the bytes it started from, for every
\* file content and key.
C11_MaskInvolution == []MaskTwice /\ [][MaskStep]_vars

\* A file longer than xor_file's buffer has been masked, past the buffer too.
C11_Witness ==
    /\ msg = "XOR applied"
    /\ Len(studentFile.bytes) > XOR_BUF
    /\ studentFile.bytes[XOR_BUF + 1] = ByteXor(66, 77)

(* ---------------------------------------------------- backup and restore *)
\* SpecBackup: an ADMIN session adds a student, deletes all, masks the file
\* with a key that is or is not a byte of it, backs up and restores.
BackupKeys == {KeyK, ZERO}

backup_menu ==
    /\ pc = "admin_menu" /\ ~waiting
    /\ \/ add_student_choice
       \/ delete_all_choice
       \/ \E y \in Booleans, k \in BackupKeys : feature_toggle_encryption(y, k)
       \/ \E w \in Booleans : feature_backup(w)
       \/ \E y \in Booleans, w \in Booleans : feature_restore(y, w)

NextBackup == backup_menu \/ pause_and_wait

SpecBackup == InitStore /\ [][NextBackup]_vars

Handled == ~waiting /\ waiting'

BackupStep ==
    /\ Handled /\ msg' = "Backup saved" => backupFile' = studentFile
    /\ Handled /\ msg' = "Restore complete." => studentFile' = backupFile
    /\ Handled /\ msg' = "No data to backup." => backupFile' = backupFile
    /\ backupFile' # backupFile => msg' = "Backup saved"

\* C12: backup/restore round trip.  A successful backup leaves the backup
\* file byte-identical to the student file, nothing but a backup changes the
\* backup file, a confirmed restore makes the student file byte-identical to
\* the backup file, and a backup with no student file leaves the backup file
\* as it was.
C12_BackupRestore == [][BackupStep]_vars

(* ---------------------------------------------------------------- export *)
\* SpecExport: an ADMIN session adds and deletes two students and exports,
\* each export file opening or not.
ExportMaxStudents == 2
ExportRollIn == {Scan(1), Scan(2)}
ExportMarksIn == {GoodMarks, AllOf(50000)}
\* "Sun Nov  1 21:00:00 2026\n"
TimeText == <<83, 117, 110, 32, 78, 111, 118, 32, 32, 49, 32, 50, 49, 58, 48, 48, 58, 48, 48, 32, 50, 48, 50, 54, 10>>

export_menu ==
    /\ pc = "admin_menu" /\ ~waiting
    /\ \/ \E r \in ExportRollIn, m \in ExportMarksIn :
             feature_add_student(r, NameAl, m, TRUE) /\ StoreRoom(ExportMaxStudents)
       \/ \E r \in ExportRollIn : feature_delete_student(r, TRUE)
       \/ \E c \in Booleans, r \in Booleans : feature_export(c, r, TimeText)

NextExport == export_menu \/ pause_and_wait

SpecExport == InitStore /\ [][NextExport]_vars

\* The rolls written at the start of the lines of a delimited export, its
\* header line left out.
RowRolls(f) ==
    LET rows == Tail(FgetsAll(f.bytes, LINE_BUF))
    IN [i \in 1..Len(rows) |-> atoi(rows[i])]

\* The rolls of the "Roll: " lines of a report, in order.
ReportRolls(f) ==
    LET lines == FgetsAll(f.bytes, LINE_BUF)
        IsRoll(l) == Len(l) > 6 /\ SubSeq(l, 1, 6) = <<82, 111, 108, 108, 58, 32>>
        at == {i \in 1..Len(lines) : IsRoll(lines[i])}
        picked == Pick(lines, at, 1)
    IN [i \in 1..Len(picked) |-> atoi(SubSeq(picked[i], 7, Len(picked[i])))]

SnapshotRolls ==
    LET a == read_all_students(studentFile) IN [i \in 1..Len(a) |-> a[i].roll]

ExportStep ==
    /\ Handled /\ msg' = "Error creating export files."
          => csvFile' = csvFile /\ reportFile' = reportFile
    /\ Handled /\ msg' = "Exported"
          => /\ RowRolls(csvFile') = SnapshotRolls
             /\ ReportRolls(reportFile') = SnapshotRolls
    /\ exports' # exports => msg' = "Exported"

\* C13: export is both-or-neither.  If either export file cannot be opened an
\* error is reported and the content of neither export file changes;
\* otherwise both are written from the same snapshot, one row and one entry
\* for each student in snapshot order.
C13_ExportBothOrNeither == [][ExportStep]_vars

(* ------------------------------------------------------------ tie order *)
\* SpecTies: an ADMIN session over two rolls whose marks may give equal
\* totals, with every sort by total descending.
TiesMaxStudents == 2
TiesMarksIn == {GoodMarks, AllOf(90000), AllOf(50000)}
TiesSortIn == {Scan(4)}

ties_menu ==
    /\ pc = "admin_menu" /\ ~waiting
    /\ StoreMenu(TiesMaxStudents, ExportRollIn, {NameAl}, TiesMarksIn,
                 {<<>>}, {KeepMarks}, TiesSortIn, Writable)

NextTies == ties_menu \/ pause_and_wait

SpecTies == InitStore /\ [][NextTies]_vars

Sorted == Handled /\ msg' \in {"table", "Saved.", "Error saving."}

\* The place of the record with roll r in array a.
PlaceOf(a, r) == CHOOSE i \in 1..Len(a) : a[i].roll = r

TieStep ==
    Sorted =>
        LET a == read_all_students(studentFile)
            q == shown'
        IN \A i, j \in 1..Len(q) :
              i < j /\ q[i].total = q[j].total
                  => PlaceOf(a, q[i].roll) < PlaceOf(a, q[j].roll)

\* C14: after a sort by total descending, any two records with the same
\* total stand in the relative order they had in the snapshot.
C14_TieStability == [][TieStep]_vars

(* ------------------------------------------------------ statistics spec *)
\* SpecStats: an ADMIN session adds and deletes up to three students, some
\* under a name holding the field delimiter, and asks for the statistics.
StatsMaxStudents == 3
StatsRollIn == {Scan(1), Scan(2), Scan(3)}
\* "B|500"
NameHigh == <<66, 124, 53, 48, 48>>
StatsNameIn == {NameAl, NameHigh}
StatsMarksIn == {AllOf(40000), AllOf(70000)}

stats_menu ==
    /\ pc = "admin_menu" /\ ~waiting
    /\ \/ \E r \in StatsRollIn, n \in StatsNameIn, m \in StatsMarksIn :
             feature_add_student(r, n, m, TRUE) /\ StoreRoom(StatsMaxStudents)
       \/ \E r \in StatsRollIn : feature_delete_student(r, TRUE)
       \/ feature_statistics

NextStats == stats_menu \/ pause_and_wait

SpecStats == InitStore /\ [][NextStats]_vars

RECURSIVE SumPct(_)
SumPct(a) == IF a = <<>> THEN 0 ELSE Head(a).percentage + SumPct(Tail(a))

\* The first place of array a whose percentage is p.
FirstWith(a, p) == CHOOSE i \in 1..Len(a) :
    a[i].percentage = p /\ \A j \in 1..(i - 1) : a[j].percentage # p

MaxPct(a) == CHOOSE p \in {a[i].percentage : i \in 1..Len(a)} :
    \A i \in 1..Len(a) : a[i].percentage <= p

MinPct(a) == CHOOSE p \in {a[i].percentage : i \in 1..Len(a)} :
    \A i \in 1..Len(a) : a[i].percentage >= p

StatsStep ==
    Handled /\ msg' = "statistics" =>
        LET a == read_all_students(studentFile)
            r == shown'[1]
        IN /\ a # <<>>
           /\ r.count = Len(a) /\ r.sum = SumPct(a)
           /\ r.highest = a[FirstWith(a, MaxPct(a))]
           /\ r.lowest = a[FirstWith(a, MinPct(a))]
           /\ r.pass = Cardinality({i \in 1..Len(a) : a[i].percentage >= 50 * PctScale})
           /\ r.fail = Len(a) - r.pass

\* C15: over a non-empty snapshot the statistics report the average as the
\* sum of the percentages over the count, as highest (lowest) the first
\* record in snapshot order whose percentage is the maximum (minimum), as
\* pass count the records with percentage at least 50 and as fail count the
\* rest.
C15_Statistics == [][StatsStep]_vars

(* ----------------------------------------------------------- mark range *)
\* SpecRange: an ADMIN session adds and updates two students from an empty
\* file, under plain names and under one holding the field delimiter.
RangeMaxStudents == 2
\* "B|-5"
NameLow == <<66, 124, 45, 53>>
RangeNameIn == {NameAl, NameLow}
RangeMarksIn == {GoodMarks, <<Scan(0), Scan(100000), Scan(100001)>>}
RangeUpdateNameIn == {<<>>, NameLow}
RangeUpdateMarksIn == {KeepMarks, <<Scan(50010), NoScan, Scan(100001)>>}

range_menu ==
    /\ pc = "admin_menu" /\ ~waiting
    /\ \/ \E r \in ExportRollIn, n \in RangeNameIn, m \in RangeMarksIn :
             feature_add_student(r, n, m, TRUE) /\ StoreRoom(RangeMaxStudents)
       \/ \E r \in ExportRollIn, n \in RangeUpdateNameIn, m \in RangeUpdateMarksIn :
             feature_update_student(r, n, m, TRUE)

NextRange == range_menu \/ pause_and_wait

SpecRange == InitStore /\ [][NextRange]_vars

MarksInRange ==
    LET a == read_all_students(studentFile)
    IN \A i \in 1..Len(a) : \A j \in 1..SUBJECTS : valid_marks(a[i].marks[j])

\* An update changes a mark only to a value within 0..100.
UpdateKeeps ==
    Handled /\ msg' = "Record updated." =>
        LET a == read_all_students(studentFile)
            b == read_all_students(studentFile')
        IN /\ Len(b) = Len(a)
           /\ \A i \in 1..Len(a) : \A j \in 1..SUBJECTS :
                 b[i].marks[j] # a[i].marks[j] => valid_marks(b[i].marks[j])

\* C16: from an empty student file, after any adds and updates, under any
\* accepted name (one holding '|' included), every record read back has each
\* mark within 0..100, and an update replaces a mark only by an entered value
\* within 0..100.
C16_MarkRange == []MarksInRange /\ [][UpdateKeeps]_vars

(* --------------------------------------------------------------- delete *)
\* SpecDelete: an ADMIN session adds and deletes three students, some under
\* a name whose tail reads as a mark with three decimals.
DeleteMaxStudents == 3
\* "B|89.996"
NameFine == <<66, 124, 56, 57, 46, 57, 57, 54>>
DeleteNameIn == {NameAl, NameFine}
DeleteRollIn == {Scan(1), Scan(2), Scan(3), NoScan}
DeleteMarksIn == {GoodMarks, AllOf(90000)}

delete_menu ==
    /\ pc = "admin_menu" /\ ~waiting
    /\ \/ \E r \in DeleteRollIn, n \in DeleteNameIn, m \in DeleteMarksIn :
             feature_add_student(r, n, m, TRUE) /\ StoreRoom(DeleteMaxStudents)
       \/ \E r \in DeleteRollIn, w \in Booleans : feature_delete_student(r, w)

NextDelete == delete_menu \/ pause_and_wait

SpecDelete == InitStore /\ [][NextDelete]_vars

\* The record at place i of a is the first of its roll, and b is a without it.
Removed(a, b, i) ==
    /\ \A k \in 1..(i - 1) : a[k].roll # a[i].roll
    /\ b = RemoveAt(a, i)

DeleteStep ==
    Handled /\ msg' = "Deleted successfully." =>
        LET a == read_all_students(studentFile)
            b == read_all_students(studentFile')
        IN \E i \in 1..Len(a) : Removed(a, b, i)

\* C17: a successful delete leaves the records read back equal to the
\* previous snapshot without the record of the roll given, every other
\* record unchanged and in its previous relative order.
C17_DeleteOne == [][DeleteStep]_vars

(* ------------------------------------------------------- rejected input *)
\* SpecInvalid: an ADMIN session in which every update that finds its roll
\* enters a mark outside 0..100 or an unreadable one, adds are valid or have
\* one invalid field, rolls are present or absent, the credential manager is
\* asked about a known and an unknown user, and restore is confirmed or
\* declined with or without a backup file.
InvalidMaxStudents == 2
InvalidRollIn == {Scan(1), Scan(2), NoScan}
InvalidNameIn == {NameAl, <<>>}
InvalidMarksIn ==
    {GoodMarks, <<Scan(90000), Scan(100001), Scan(95000)>>,
     <<Scan(90000), NoScan, Scan(95000)>>}
InvalidUpdateMarksIn ==
    {<<Scan(50000), Scan(150000), Scan(-1000)>>,
     <<Scan(-1000), NoScan, Scan(-1000)>>}

invalid_menu ==
    /\ pc = "admin_menu" /\ ~waiting
    /\ \/ \E r \in InvalidRollIn, n \in InvalidNameIn, m \in InvalidMarksIn :
             feature_add_student(r, n, m, TRUE) /\ StoreRoom(InvalidMaxStudents)
       \/ \E r \in InvalidRollIn, m \in InvalidUpdateMarksIn :
             feature_update_student(r, <<>>, m, TRUE)
       \/ \E r \in InvalidRollIn : feature_delete_student(r, TRUE)
       \/ feature_backup(TRUE)
       \/ \E y \in Booleans : feature_restore(y, TRUE)
       \/ \E c \in {Scan(2), Scan(3)}, u \in CredUsers :
             feature_manage_credentials(c, u, PassP, <<>>, TRUE)

NextInvalid == invalid_menu \/ pause_and_wait

SpecInvalid == InitStore /\ [][NextInvalid]_vars

\* What a handler reports when it rejects an input or does not find what it
\* was asked for; "Record updated." is what an update reports after it was
\* given the marks of InvalidUpdateMarksIn.
Rejections ==
    {"Invalid roll.", "Invalid name.", "Marks must be 0-100.",
     "Invalid marks input.", "Invalid.", "No records.", "Roll not found.",
     "Backup file not found.", "Restore cancelled.", "Record updated."}

RejectedStep ==
    /\ Handled /\ msg' \in Rejections => studentFile' = studentFile
    /\ Handled /\ msg' = "User not found." => credFile' = credFile

\* C18: an add or update in which an entered roll, name or mark is invalid
\* leaves the student file unchanged; so do an update or delete of a roll
\* that is not in the file and a restore that is declined or finds no
\* backup file; a password reset or removal of an unknown user leaves the
\* credential file unchanged.
C18_RejectedNoChange == [][RejectedStep]_vars

(* ------------------------------------------------------ saved sort order *)
\* SpecSort: an ADMIN session adds two students, some under a name whose
\* tail reads as a mark with three decimals, and sorts by every choice,
\* saving the order or not.
SortMaxStudents == 2
SortChoiceIn == {Scan(1), Scan(2), Scan(3), Scan(4), Scan(5), NoScan}

sort_menu ==
    /\ pc = "admin_menu" /\ ~waiting
    /\ \/ \E r \in ExportRollIn, n \in DeleteNameIn, m \in DeleteMarksIn :
             feature_add_student(r, n, m, TRUE) /\ StoreRoom(SortMaxStudents)
       \/ \E r \in ExportRollIn : feature_delete_student(r, TRUE)
       \/ \E c \in SortChoiceIn, y \in Booleans : feature_sorting(c, y, TRUE)

NextSort == sort_menu \/ pause_and_wait

SpecSort == InitStore /\ [][NextSort]_vars

\* Arrays a and b hold the same records, each as often.
SameRecords(a, b) ==
    /\ Len(a) = Len(b)
    /\ \E p \in Arrangements(Len(a)) : \A i \in 1..Len(a) : b[i] = a[p[i]]

SortStep ==
    /\ Handled /\ msg' \in {"table", "Invalid.", "Invalid choice.", "No records to sort."}
          => studentFile' = studentFile
    /\ Handled /\ msg' = "Saved."
          => /\ SameRecords(read_all_students(studentFile), shown')
             /\ read_all_students(studentFile') = shown'

\* C19: a sort whose choice is invalid or whose order is not saved leaves
\* the student file unchanged; a sort whose order is saved leaves in the
\* file exactly the records of the snapshot, none added or lost, in the
\* order displayed.
C19_SortOptIn == [][SortStep]_vars

(* ---------------------------------------------------------- login passes *)
\* C20: the login flow ends for every input, one in which no user name can
\* be read included: every pass of the loop that does not log in counts
\* toward the limit, so at the prompt fewer than MAX_ATTEMPTS such passes
\* have been made and each was counted.
C20_LoginTerminates ==
    pc = "login" => passes = attempts /\ passes < MAX_ATTEMPTS

(* ------------------------------------------------------------ roll order *)
\* SpecRolls: an ADMIN session adds and deletes three students whose rolls are
\* small, negative and the extreme ints, and sorts by roll, ascending and
\* descending, saving the order or not.
RollsMaxStudents == 3
RollsRollIn == {Scan(1), Scan(-1), Scan(INT_MAX), Scan(INT_MIN)}
RollsSortIn == {Scan(1), Scan(2)}

rolls_menu ==
    /\ pc = "admin_menu" /\ ~waiting
    /\ \/ \E r \in RollsRollIn :
             feature_add_student(r, NameAl, GoodMarks, TRUE) /\ StoreRoom(RollsMaxStudents)
       \/ \E r \in RollsRollIn : feature_delete_student(r, TRUE)
       \/ \E c \in RollsSortIn, y \in Booleans : feature_sorting(c, y, TRUE)

NextRolls == rolls_menu \/ pause_and_wait

SpecRolls == InitStore /\ [][NextRolls]_vars

NonDecreasing(q) == \A i, j \in 1..Len(q) : i < j => q[i].roll <= q[j].roll

NonIncreasing(q) == \A i, j \in 1..Len(q) : i < j => q[i].roll >= q[j].roll

RollSortStep ==
    Sorted =>
        LET a == read_all_students(studentFile)
            q == shown'
        IN /\ SameRecords(a, q)
           /\ q \in qsort(a, 1) => NonDecreasing(q)
           /\ q \in qsort(a, 2) => NonIncreasing(q)

\* C21: for rolls that are any machine integers, the comparator's difference
\* wrapping at the integer width, a sort by roll ascending displays the
\* records of the snapshot in non-decreasing roll order and a sort by roll
\* descending in non-increasing roll order.
C21_RollOrder == [][RollSortStep]_vars

====
